---- MODULE Spec2Model ----
(***************************************************************************)
(* vue-pdf-embed: the page controller (src/src/PdfPage.vue) and the        *)
(* document session (src/src/VuePdfEmbed.vue).                             *)
(*                                                                         *)
(* Spec       one page controller (page number pageNum of a document of    *)
(*            NumPages pages) with its asynchronous setup and renderPage   *)
(*            bodies, driven by the visibility events of all pages.  The   *)
(*            controllers of the other pages share no state with it but    *)
(*            the parent's pagesToRender, so only their observer callbacks *)
(*            are kept.                                                    *)
(* SpecLive   Spec for page 1 with the fairness of the event loop and the   *)
(*            engine.                                                      *)
(* SpecMember the controller of page 1 of a document of MemberPages pages,  *)
(*            whose far pages come and go without touching its membership  *)
(*            in the Render Set.                                           *)
(* SpecVis    the parent's onVisibilityChanged alone, for documents of up  *)
(*            to MaxNumPages pages.                                        *)
(* SpecPrint  the print operation of the document session.                 *)
(* SpecForm   renderFormFields over bounded annotation lists.              *)
(* SpecGeom   the geometry computed by setup and renderPage.               *)
(* SpecLayout the stored dimensions of a page under prop changes, container *)
(*            resizes and changes of the Render Set.                       *)
(* SpecObserver the observer callbacks of all pages, handed one or several *)
(*            entries at a time.                                           *)
(* SpecDoc    the document handle, the page-number sequence derived from   *)
(*            it and the events of the document session.                   *)
(***************************************************************************)
EXTENDS Integers, Sequences, FiniteSets, TLC

\* ------------------------------------------------------------------ bounds
NumPages == 2        \* pages of the document of Spec
MaxRenders == 2      \* renderPage invocations of the page controller in Spec
MaxNumPages == 6     \* largest document of SpecVis
MaxAnnotations == 2  \* longest annotation list of SpecForm
MaxLoads == 3        \* loads of a source in SpecDoc
MaxPageEvents == 2   \* page events passed on by the session in SpecDoc
MaxEntries == 2      \* entries handed to one observer callback in SpecObserver
MaxDelivered == 4    \* entries handed to the observers in all in SpecObserver
MemberPages == 3     \* pages of the document of SpecMember

NULL == "null"

VARIABLES
  \* ---- document session (VuePdfEmbed.vue)
  numPages,            \* doc.numPages
  visiblePages,        \* the Set visiblePages
  pagesToRender,       \* pagesToRender.value (only membership is ever read)
  \* ---- page controller (PdfPage.vue)
  isVisible,           \* isVisible.value of every page's controller
  pageNum,             \* props.pageNum of the controller modelled in full
  props,               \* props.textLayer, props.annotationLayer, props.formLayer
  root,                \* root.value: "el" while mounted, NULL after unmount
  observer,            \* NULL, "observing" or "disconnected"
  setupPc,             \* position of the setup body
  page,                \* the variable page: NULL or "handle"
  renderingTask,       \* the variable renderingTask: 0 (null) or the pass that owns it
  passes,              \* the renderPage invocations, in call order
  canvas,              \* the <canvas>: [sized, pixels]
  textLayerDiv,        \* children of .textLayer, by the pass that wrote them
  annotationLayerDiv,  \* children of .annotationLayer
  formLayerDiv,        \* children of .formLayer
  \* ---- print (VuePdfEmbed.vue)
  docTitle,            \* window.document.title
  printPc,             \* position of the print body
  printArgs,           \* [filename, allPages] of the call and props.page
  title,               \* the local variable title
  titleBefore,         \* window.document.title when print was called
  printPages,          \* position of each per-page body of the Promise.all
  container,           \* the off-screen print container and its canvases
  \* ---- renderFormFields (PdfPage.vue)
  annotations,         \* the annotation list passed in
  formFieldDivs,       \* the children of formLayerDiv, in order
  formPc,              \* "ready" before the call, "done" after it
  \* ---- geometry of setup and renderPage (PdfPage.vue)
  geom,                \* the inputs: page.view, page.rotate, props, clientWidth
  pageWidth,           \* pageWidth.value (<<>> while undefined)
  pageHeight,          \* pageHeight.value
  pageScale,           \* the scale handed to page.getViewport
  pageRotation,        \* the local pageRotation of the body that ran last
  geomPc,              \* "setup", "renderPage", "done"
  geomSignals,         \* what the two bodies emitted
  \* ---- document handle and page numbers (VuePdfEmbed.vue)
  doc,                 \* doc.value: 0 (null) or the handle of the load that produced it
  loadPc,              \* "idle", or "loading" while the engine loads the source
  loads,               \* the loads started so far
  propsPage,           \* props.page (0 when undefined)
  pageNums,            \* pageNums.value
  pageNumsId,          \* the array object pageNums.value holds, by assignment
  emitted,             \* the events the document session emitted, in order
  \* ---- intersection entries and visibility events (PdfPage.vue)
  delivered,           \* the entries the observers were handed, <<page, isIntersecting>>
  visibilityEvents     \* the 'visibility-changed' events emitted, <<pageNum, isVisible>>

docVars == <<numPages, visiblePages, pagesToRender>>
pageVars == <<pageNum, props, root, observer, setupPc, page, renderingTask,
              passes, canvas, textLayerDiv, annotationLayerDiv, formLayerDiv>>
printVars == <<docTitle, printPc, printArgs, title, titleBefore, printPages, container>>
formVars == <<annotations, formFieldDivs, formPc>>
geomVars == <<geom, pageWidth, pageHeight, pageScale, pageRotation, geomPc, geomSignals>>
sessionVars == <<doc, loadPc, loads, propsPage, pageNums, pageNumsId, emitted>>
obsVars == <<delivered, visibilityEvents>>
vars == <<docVars, isVisible, pageVars, printVars, formVars, geomVars, sessionVars, obsVars>>

\* What the page controller and the visibility handler never touch.
others == <<printVars, formVars, geomVars, sessionVars, obsVars>>

\* ------------------------------------------------- VuePdfEmbed.vue: Render Set
\* Neighbours without the upper clamp `num <= doc.numPages`.
NeighboursUnclamped(v, count) == {num \in {v - 1, v, v + 1} : num > 0}

\* The pages one visible page contributes (lines 292-296): itself and its two
\* neighbours, kept when 0 < num <= doc.numPages.
Neighbours(v, count) == {num \in {v - 1, v, v + 1} : num > 0 /\ num <= count}

\* newPagesToRender (lines 290-299).
NewPagesToRender(visible, count) == UNION {Neighbours(v, count) : v \in visible}

\* visiblePages after the add or the delete (lines 283-287).
UpdateVisiblePages(visible, n, v) == IF v THEN visible \cup {n} ELSE visible \ {n}

\* onVisibilityChanged({pageNum: n, isVisible: v}) on the parent's state.
onVisibilityChanged(n, v) ==
  /\ visiblePages' = UpdateVisiblePages(visiblePages, n, v)
  /\ pagesToRender' = NewPagesToRender(visiblePages', numPages)
  /\ UNCHANGED numPages

\* ------------------------------------------------------ PdfPage.vue: helpers
\* shouldRender (lines 66-68) for a given pagesToRender.
shouldRender(toRender) == pageNum \in toRender

\* A fresh renderPage invocation, suspended in `await props.doc.getPage`.
\*   pc         "getPage", "getTextContent", "getAnnotations", "awaitAll", "done"
\*   raster     the raster Render Task: "none", "running", "done", "failed", "cancelled"
\*   cancelSent cancel() has been called on the raster task
\*   text/annot the TextLayer / AnnotationLayer render promise
\*   form       renderFormFields placed this pass's fields
\*   signals    what the pass emitted
\*   superseded a cleanup-then-render pair ran while the raster task was unresolved
NewPass ==
  [pc |-> "getPage", raster |-> "none", cancelSent |-> FALSE, text |-> "none",
   annot |-> "none", form |-> FALSE, signals |-> {}, superseded |-> FALSE]

PassIds == 1..Len(passes)

\* renderingTask.cancel() on the task held in rt (lines 227-230 and 304-307):
\* a running task rejects with RenderingCancelledException, a settled one is unaffected.
CancelTask(ps, rt) ==
  IF rt = 0 THEN ps
  ELSE [ps EXCEPT ![rt] = [@ EXCEPT !.cancelSent = TRUE,
                                    !.raster = IF @ = "running" THEN "cancelled" ELSE @]]

\* handleRenderError (lines 292-300): the signals after an error named `name`.
handleRenderError(signals, name) ==
  IF name = "RenderingCancelledException" THEN signals
  ELSE signals \cup {"rendering-failed:" \o name}

\* An outer catch that ends the pass without emitting.
ThrowSilent(ps, b, name) ==
  [ps EXCEPT ![b] = [@ EXCEPT !.pc = "done"]]

\* emit('rendering-failed', error) of the outer catch (lines 286-288) ends the pass.
Throw(ps, b, name) ==
  [ps EXCEPT ![b] = [@ EXCEPT !.pc = "done",
                              !.signals = @ \cup {"rendering-failed:" \o name}]]

\* What cleanup() leaves of the canvas and the overlays (lines 309-323): an
\* element is found through root.value, so nothing is touched once root is null.
\* The .formLayer container is not among them.
ReleasedCanvas == [sized |-> FALSE, pixels |-> {}]

cleanupDom ==
  /\ canvas' = IF root # NULL THEN ReleasedCanvas ELSE canvas
  /\ textLayerDiv' = IF root # NULL /\ props.textLayer THEN {} ELSE textLayerDiv
  /\ annotationLayerDiv' =
       IF root # NULL /\ props.annotationLayer THEN {} ELSE annotationLayerDiv
  /\ UNCHANGED formLayerDiv

\* cleanup() (lines 303-330), given what becomes of the passes after the cancel.
cleanup(ps) ==
  /\ passes' = ps
  /\ renderingTask' = 0
  /\ cleanupDom
  /\ page' = NULL

\* renderPage() up to its first await (lines 163-169): props.doc and
\* props.parentRoot are set, so the call suspends in getPage.
renderPageCall(ps) == Append(ps, NewPass)

\* Marks the passes a cleanup-then-render pair supersedes.
Supersede(ps) ==
  [b \in 1..Len(ps) |->
     IF ps[b].raster = "running" /\ ps[b].pc # "done"
     THEN [ps[b] EXCEPT !.superseded = TRUE] ELSE ps[b]]

\* A watcher that runs its callback whenever pagesToRender is replaced.
WatchShouldRenderOnReplace(old, new) ==
  IF root = NULL
  THEN UNCHANGED pageVars
  ELSE IF new
       THEN /\ Len(passes) < MaxRenders
            /\ passes' = renderPageCall(passes)
            /\ UNCHANGED <<pageNum, props, root, observer, setupPc, page, renderingTask,
                           canvas, textLayerDiv, annotationLayerDiv, formLayerDiv>>
       ELSE /\ cleanup(CancelTask(passes, renderingTask))
            /\ UNCHANGED <<pageNum, props, root, observer, setupPc>>

\* The callback of watch(shouldRender) (lines 412-422) for a change old -> new.
\* The watchers stop with the component, so nothing runs after unmount.
WatchShouldRender(old, new) ==
  IF root = NULL \/ old = new
  THEN UNCHANGED pageVars
  ELSE IF new
       THEN /\ Len(passes) < MaxRenders
            /\ passes' = renderPageCall(passes)
            /\ UNCHANGED <<pageNum, props, root, observer, setupPc, page, renderingTask,
                           canvas, textLayerDiv, annotationLayerDiv, formLayerDiv>>
       ELSE /\ cleanup(CancelTask(passes, renderingTask))
            /\ UNCHANGED <<pageNum, props, root, observer, setupPc>>


\* ------------------------------------------------------ PdfPage.vue: actions
\* The IntersectionObserver callback of page n (lines 373-380) with
\* entry.isIntersecting = v, the parent's onVisibilityChanged it emits to, and
\* the watch(shouldRender) callback that change schedules in this controller.
\* The observer of pageNum exists once its setup has run and until unmount.
ObserverCallback(n, v) ==
  /\ n = pageNum => observer = "observing"
  /\ isVisible' = [isVisible EXCEPT ![n] = v]
  /\ IF v # isVisible[n]
     THEN /\ onVisibilityChanged(n, v)
          /\ WatchShouldRender(shouldRender(pagesToRender), shouldRender(pagesToRender'))
     ELSE UNCHANGED <<docVars, pageVars, obsVars>>
  /\ UNCHANGED others

\* setup() resumes from `await props.doc.getPage` (lines 356-388).
SetupResume(ok) ==
  /\ setupPc = "getPage"
  /\ setupPc' = "done"
  /\ IF ok
     THEN /\ page' = "handle"
          /\ observer' = IF root # NULL THEN "observing" ELSE "disconnected"
     ELSE UNCHANGED <<page, observer>>
  /\ UNCHANGED <<others, docVars, isVisible, pageNum, props, root, renderingTask, passes,
                 canvas, textLayerDiv, annotationLayerDiv, formLayerDiv>>

\* watch([scale, rotation, width, height]) (lines 400-409): cleanup() and
\* renderPage() when the page should render, nothing otherwise.
PropChange ==
  /\ root # NULL
  /\ shouldRender(pagesToRender)
  /\ Len(passes) < MaxRenders
  /\ cleanup(renderPageCall(CancelTask(Supersede(passes), renderingTask)))
  /\ UNCHANGED <<others, docVars, isVisible, pageNum, props, root, observer, setupPc>>

\* Where renderPage suspends after starting the raster render (lines 242-281).
AfterRaster == IF props.textLayer THEN "getTextContent"
               ELSE IF props.annotationLayer THEN "getAnnotations"
               ELSE "awaitAll"

\* StartRaster without the cancel of lines 227-230.
StartRasterNoCancel(ps, rt, b) ==
  [ps EXCEPT ![b] = [@ EXCEPT !.raster = "running", !.pc = AfterRaster]]

\* The passes after pass b has cancelled the held task and started its own
\* raster render (lines 227-239).
StartRaster(ps, rt, b) ==
  [CancelTask(ps, rt) EXCEPT ![b] = [@ EXCEPT !.raster = "running", !.pc = AfterRaster]]

\* renderPage resumes from `await props.doc.getPage` (lines 169-246).
RenderPageAfterGetPage(b, ok) ==
  /\ b \in PassIds /\ passes[b].pc = "getPage"
  /\ IF ~ok
     THEN /\ passes' = Throw(passes, b, "Error")
          /\ UNCHANGED <<page, renderingTask, canvas>>
     ELSE /\ page' = "handle"
          /\ IF root = NULL
             THEN /\ passes' = [passes EXCEPT ![b].pc = "done"]
                  /\ UNCHANGED <<renderingTask, canvas>>
             ELSE /\ canvas' = [sized |-> TRUE, pixels |-> {}]
                  /\ passes' = StartRaster(passes, renderingTask, b)
                  /\ renderingTask' = b
  /\ UNCHANGED <<others, docVars, isVisible, pageNum, props, root, observer, setupPc,
                 textLayerDiv, annotationLayerDiv, formLayerDiv>>

\* renderPage resumes from `await page.getTextContent()` (lines 244-255): the
\* TextLayer render starts; with the annotation layer on, page.getAnnotations is
\* called on the variable page, which cleanup() may have set to null meanwhile.
RenderPageAfterGetTextContent(b, ok) ==
  /\ b \in PassIds /\ passes[b].pc = "getTextContent"
  /\ passes' =
       IF ~ok THEN Throw(passes, b, "Error")
       ELSE IF ~props.annotationLayer
            THEN [passes EXCEPT ![b] = [@ EXCEPT !.text = "running", !.pc = "awaitAll"]]
       ELSE IF page = NULL
            THEN Throw([passes EXCEPT ![b].text = "running"], b, "TypeError")
       ELSE [passes EXCEPT ![b] = [@ EXCEPT !.text = "running", !.pc = "getAnnotations"]]
  /\ UNCHANGED <<others, docVars, isVisible, pageNum, props, root, observer, setupPc, page,
                 renderingTask, canvas, textLayerDiv, annotationLayerDiv, formLayerDiv>>

\* The element document.querySelector('#' + props.id + ' .formLayer') finds
\* (line 276): rendered only with props.formLayer (template, line 453) and in
\* the document only while the component is mounted.
FormLayerFound == props.formLayer /\ root # NULL

\* renderPage resumes from `await page.getAnnotations` (lines 255-281): the
\* AnnotationLayer render starts and fills its div, then renderFormFields runs,
\* which throws at `formLayerDiv.innerHTML = ''` (line 134) on a null element.
RenderPageAfterGetAnnotations(b, ok) ==
  /\ b \in PassIds /\ passes[b].pc = "getAnnotations"
  /\ IF ~ok
     THEN /\ passes' = Throw(passes, b, "Error")
          /\ UNCHANGED <<annotationLayerDiv, formLayerDiv>>
     ELSE /\ annotationLayerDiv' = annotationLayerDiv \cup {b}
          /\ IF FormLayerFound
             THEN /\ formLayerDiv' = {b}
                  /\ passes' = [passes EXCEPT ![b] = [@ EXCEPT !.annot = "running",
                                                      !.form = TRUE, !.pc = "awaitAll"]]
             ELSE /\ passes' = Throw([passes EXCEPT ![b].annot = "running"], b, "TypeError")
                  /\ UNCHANGED formLayerDiv
  /\ UNCHANGED <<others, docVars, isVisible, pageNum, props, root, observer, setupPc, page,
                 renderingTask, canvas, textLayerDiv>>

\* The raster Render Task of pass b settles; a rejection runs
\* renderingTask.promise.catch(handleRenderError) (line 239).
RasterSettle(b, ok) ==
  /\ b \in PassIds /\ passes[b].raster = "running"
  /\ IF ok
     THEN /\ passes' = [passes EXCEPT ![b].raster = "done"]
          /\ canvas' = [canvas EXCEPT !.pixels = @ \cup {b}]
     ELSE /\ passes' = [passes EXCEPT ![b] = [@ EXCEPT !.raster = "failed",
                                   !.signals = handleRenderError(@, "Error")]]
          /\ UNCHANGED canvas
  /\ UNCHANGED <<others, docVars, isVisible, pageNum, props, root, observer, setupPc, page,
                 renderingTask, textLayerDiv, annotationLayerDiv, formLayerDiv>>

\* The TextLayer render of pass b settles (lines 244-249); it has appended its
\* spans to the container it was given.
TextLayerSettle(b, ok) ==
  /\ b \in PassIds /\ passes[b].text = "running"
  /\ passes' = [passes EXCEPT ![b].text = IF ok THEN "done" ELSE "failed"]
  /\ textLayerDiv' = IF ok THEN textLayerDiv \cup {b} ELSE textLayerDiv
  /\ UNCHANGED <<others, docVars, isVisible, pageNum, props, root, observer, setupPc, page,
                 renderingTask, canvas, annotationLayerDiv, formLayerDiv>>

\* The AnnotationLayer render of pass b settles (lines 265-274).
AnnotationLayerSettle(b, ok) ==
  /\ b \in PassIds /\ passes[b].annot = "running"
  /\ passes' = [passes EXCEPT ![b].annot = IF ok THEN "done" ELSE "failed"]
  /\ UNCHANGED <<others, docVars, isVisible, pageNum, props, root, observer, setupPc, page,
                 renderingTask, canvas, textLayerDiv, annotationLayerDiv, formLayerDiv>>

\* Promise.all(renderTasks) (line 281): rejects with the first rejected overlay
\* render; the raster promise was wrapped by .catch and never rejects.
AllRejected(p) == p.text = "failed" \/ p.annot = "failed"
AllResolved(p) == /\ p.raster \in {"done", "failed", "cancelled"}
                  /\ p.text \in {"none", "done"}
                  /\ p.annot \in {"none", "done"}

\* renderPage resumes from `await Promise.all(renderTasks)` (lines 280-285).
RenderPageAfterAwaitAll(b) ==
  /\ b \in PassIds /\ passes[b].pc = "awaitAll"
  /\ AllRejected(passes[b]) \/ AllResolved(passes[b])
  /\ passes' = [passes EXCEPT ![b] = [@ EXCEPT !.pc = "done",
                  !.signals = IF AllRejected(passes[b])
                              THEN handleRenderError(@, "Error")
                              ELSE @ \cup {"rendered"}]]
  /\ UNCHANGED <<others, docVars, isVisible, pageNum, props, root, observer, setupPc, page,
                 renderingTask, canvas, textLayerDiv, annotationLayerDiv, formLayerDiv>>

\* onBeforeUnmount (lines 391-397); the component's watchers stop and its
\* template ref root (line 428) is set to null once the hook has run.
Unmount ==
  /\ root # NULL
  /\ observer' = IF observer # NULL THEN "disconnected" ELSE observer
  /\ cleanup(CancelTask(passes, renderingTask))
  /\ root' = NULL
  /\ UNCHANGED <<others, docVars, isVisible, pageNum, props, setupPc>>

\* ------------------------------------------------------------------- Spec
\* The print operation before it is called.
IdlePrint ==
  /\ docTitle = ""
  /\ printPc = "idle"
  /\ printArgs = [filename |-> "", allPages |-> FALSE, page |-> 0]
  /\ title = NULL
  /\ titleBefore = ""
  /\ printPages = <<>>
  /\ container = [attached |-> FALSE, canvases |-> {}, released |-> FALSE]

IdleForm ==
  /\ annotations = <<>>
  /\ formFieldDivs = <<>>
  /\ formPc = "done"

IdleGeom ==
  /\ geom = <<>>
  /\ pageWidth = <<>>
  /\ pageHeight = <<>>
  /\ pageScale = <<>>
  /\ pageRotation = 0
  /\ geomPc = "done"
  /\ geomSignals = {}

\* The document session with its document loaded and nothing more to load.
IdleSession ==
  /\ doc = 1
  /\ loadPc = "idle"
  /\ loads = 1
  /\ propsPage = 0
  /\ pageNums = [i \in 1..numPages |-> i]
  /\ pageNumsId = 1
  /\ emitted = <<[event |-> "loaded", doc |-> 1], [event |-> "rendered", doc |-> 0]>>

\* No intersection entry recorded.
IdleObserver ==
  /\ delivered = <<>>
  /\ visibilityEvents = <<>>

\* The document session of a loaded document of `count` pages, nothing visible.
InitDoc(count) ==
  /\ numPages = count
  /\ visiblePages = {}
  /\ pagesToRender = {}
  /\ isVisible = [n \in 1..count |-> FALSE]

\* The controller of page n after onMounted: setup() is suspended in getPage and
\* the immediate watch(shouldRender) found nothing to render.
InitPage(n, flags) ==
  /\ pageNum = n
  /\ props = flags
  /\ root = "el"
  /\ observer = NULL
  /\ setupPc = "getPage"
  /\ page = NULL
  /\ renderingTask = 0
  /\ passes = <<>>
  /\ canvas = ReleasedCanvas
  /\ textLayerDiv = {}
  /\ annotationLayerDiv = {}
  /\ formLayerDiv = {}

\* No controller modelled in full: only the observers of the pages.
NoPage ==
  /\ pageNum = 0
  /\ props = [textLayer |-> FALSE, annotationLayer |-> FALSE, formLayer |-> FALSE]
  /\ root = NULL
  /\ observer = NULL
  /\ setupPc = "done"
  /\ page = NULL
  /\ renderingTask = 0
  /\ passes = <<>>
  /\ canvas = ReleasedCanvas
  /\ textLayerDiv = {}
  /\ annotationLayerDiv = {}
  /\ formLayerDiv = {}

LayerFlags == [textLayer : BOOLEAN, annotationLayer : BOOLEAN, formLayer : BOOLEAN]

Init ==
  /\ InitDoc(NumPages)
  /\ \E n \in 1..NumPages, flags \in LayerFlags : InitPage(n, flags)
  /\ IdlePrint /\ IdleForm /\ IdleGeom /\ IdleSession /\ IdleObserver

Next ==
  \/ \E n \in 1..numPages, v \in BOOLEAN : ObserverCallback(n, v)
  \/ \E ok \in BOOLEAN : SetupResume(ok)
  \/ PropChange
  \/ \E b \in 1..MaxRenders, ok \in BOOLEAN : RenderPageAfterGetPage(b, ok)
  \/ \E b \in 1..MaxRenders, ok \in BOOLEAN : RenderPageAfterGetTextContent(b, ok)
  \/ \E b \in 1..MaxRenders, ok \in BOOLEAN : RenderPageAfterGetAnnotations(b, ok)
  \/ \E b \in 1..MaxRenders, ok \in BOOLEAN : RasterSettle(b, ok)
  \/ \E b \in 1..MaxRenders, ok \in BOOLEAN : TextLayerSettle(b, ok)
  \/ \E b \in 1..MaxRenders, ok \in BOOLEAN : AnnotationLayerSettle(b, ok)
  \/ \E b \in 1..MaxRenders : RenderPageAfterAwaitAll(b)
  \/ Unmount

Spec == Init /\ [][Next]_vars

\* --------------------------------------------------------------- SpecLive
\* Spec for page 1 under the scheduling the event loop and the engine give:
\* every engine call of a render pass (page fetch, text-content fetch,
\* annotation fetch, raster, text and annotation render) eventually resolves or
\* rejects, and a body whose awaited promise has settled eventually resumes.
InitLive ==
  /\ InitDoc(NumPages)
  /\ \E flags \in LayerFlags : InitPage(1, flags)
  /\ IdlePrint /\ IdleForm /\ IdleGeom /\ IdleSession /\ IdleObserver

Fairness ==
  \A b \in 1..MaxRenders :
    /\ WF_vars(\E ok \in BOOLEAN : RenderPageAfterGetPage(b, ok))
    /\ WF_vars(\E ok \in BOOLEAN : RenderPageAfterGetTextContent(b, ok))
    /\ WF_vars(\E ok \in BOOLEAN : RenderPageAfterGetAnnotations(b, ok))
    /\ WF_vars(\E ok \in BOOLEAN : RasterSettle(b, ok))
    /\ WF_vars(\E ok \in BOOLEAN : TextLayerSettle(b, ok))
    /\ WF_vars(\E ok \in BOOLEAN : AnnotationLayerSettle(b, ok))
    /\ WF_vars(RenderPageAfterAwaitAll(b))

\* Next with the observer callbacks of this page alone.
NextLive ==
  \/ \E v \in BOOLEAN : ObserverCallback(pageNum, v)
  \/ \E ok \in BOOLEAN : SetupResume(ok)
  \/ PropChange
  \/ \E b \in 1..MaxRenders, ok \in BOOLEAN : RenderPageAfterGetPage(b, ok)
  \/ \E b \in 1..MaxRenders, ok \in BOOLEAN : RenderPageAfterGetTextContent(b, ok)
  \/ \E b \in 1..MaxRenders, ok \in BOOLEAN : RenderPageAfterGetAnnotations(b, ok)
  \/ \E b \in 1..MaxRenders, ok \in BOOLEAN : RasterSettle(b, ok)
  \/ \E b \in 1..MaxRenders, ok \in BOOLEAN : TextLayerSettle(b, ok)
  \/ \E b \in 1..MaxRenders, ok \in BOOLEAN : AnnotationLayerSettle(b, ok)
  \/ \E b \in 1..MaxRenders : RenderPageAfterAwaitAll(b)
  \/ Unmount

SpecLive == InitLive /\ [][NextLive]_vars /\ Fairness

\* ------------------------------------------------------------- SpecMember
\* The controller of page 1, all layers on, in a document long enough for
\* pages to become visible and hidden while page 1 stays outside the Render
\* Set, and for more than one page to hold it inside.
InitMember ==
  /\ InitDoc(MemberPages)
  /\ InitPage(1, [textLayer |-> TRUE, annotationLayer |-> TRUE, formLayer |-> TRUE])
  /\ IdlePrint /\ IdleForm /\ IdleGeom /\ IdleSession /\ IdleObserver

SpecMember == InitMember /\ [][Next]_vars

\* ------------------------------------------------------------- SpecRaster
\* The same controller with the text and annotation layers off: renderPage
\* goes from the raster render straight to Promise.all.
InitRaster ==
  /\ InitDoc(NumPages)
  /\ \E n \in 1..NumPages :
       InitPage(n, [textLayer |-> FALSE, annotationLayer |-> FALSE, formLayer |-> FALSE])
  /\ IdlePrint /\ IdleForm /\ IdleGeom /\ IdleSession /\ IdleObserver

NextRaster ==
  \/ \E n \in 1..numPages, v \in BOOLEAN : ObserverCallback(n, v)
  \/ \E ok \in BOOLEAN : SetupResume(ok)
  \/ PropChange
  \/ \E b \in 1..MaxRenders, ok \in BOOLEAN : RenderPageAfterGetPage(b, ok)
  \/ \E b \in 1..MaxRenders, ok \in BOOLEAN : RasterSettle(b, ok)
  \/ \E b \in 1..MaxRenders : RenderPageAfterAwaitAll(b)
  \/ Unmount

SpecRaster == InitRaster /\ [][NextRaster]_vars

\* ---------------------------------------------------------------- SpecVis
\* The observers of all pages of a document of 1..MaxNumPages pages and the
\* parent's onVisibilityChanged.
InitVis ==
  /\ \E count \in 1..MaxNumPages : InitDoc(count)
  /\ NoPage
  /\ IdlePrint /\ IdleForm /\ IdleGeom /\ IdleSession /\ IdleObserver

NextVis == \E n \in 1..numPages, v \in BOOLEAN : ObserverCallback(n, v)

SpecVis == InitVis /\ [][NextVis]_vars

\* -------------------------------------------------------------- SpecPrint
\* JavaScript truthiness of the local `title` (undefined or a string), as
\* tested by `if (title)` in the finally block (line 257).
Truthy(str) == str # NULL /\ str # ""

\* pageNums of print (lines 212-215).
PrintPageNums(propPage, allPages, count) ==
  IF propPage # 0 /\ ~allPages THEN {propPage} ELSE 1..count

Filenames == {"", "report.pdf"}
Titles == {"", "Quarterly report"}

\* print(dpi, filename, allPages) up to `await createPrintIframe` (lines 195-210).
PrintCall(filename, allPages, propPage) ==
  /\ printPc = "idle"
  /\ printArgs' = [filename |-> filename, allPages |-> allPages, page |-> propPage]
  /\ titleBefore' = docTitle
  /\ container' = [container EXCEPT !.attached = TRUE]
  /\ printPc' = "createIframe"
  /\ UNCHANGED <<docTitle, title, printPages>>
  /\ UNCHANGED <<docVars, isVisible, pageVars, formVars, geomVars, sessionVars, obsVars>>

\* The finally block (lines 256-263) for the local title t.
PrintFinally(t, titleNow) ==
  /\ docTitle' = IF Truthy(t) THEN t ELSE titleNow
  /\ container' = [container EXCEPT !.released = TRUE, !.attached = FALSE]

\* print resumes from `await createPrintIframe` (lines 210-219): the per-page
\* bodies start and suspend in getPage; a rejection goes to the finally block.
PrintAfterCreateIframe(ok) ==
  /\ printPc = "createIframe"
  /\ IF ok
     THEN /\ printPages' = [n \in PrintPageNums(printArgs.page, printArgs.allPages, numPages)
                              |-> "getPage"]
          /\ printPc' = "pages"
          /\ UNCHANGED <<docTitle, container>>
     ELSE /\ PrintFinally(title, docTitle)
          /\ printPc' = "rejected"
          /\ UNCHANGED printPages
  /\ UNCHANGED <<printArgs, title, titleBefore>>
  /\ UNCHANGED <<docVars, isVisible, pageVars, formVars, geomVars, sessionVars, obsVars>>

\* A per-page body resumes from `await doc.value.getPage` (lines 219-243): its
\* canvas is appended to the container and the print render starts.
PrintPageAfterGetPage(n, ok) ==
  /\ n \in DOMAIN printPages /\ printPages[n] = "getPage"
  /\ printPages' = [printPages EXCEPT ![n] = IF ok THEN "render" ELSE "failed"]
  /\ container' = IF ok THEN [container EXCEPT !.canvases = @ \cup {n}] ELSE container
  /\ UNCHANGED <<docTitle, printPc, printArgs, title, titleBefore>>
  /\ UNCHANGED <<docVars, isVisible, pageVars, formVars, geomVars, sessionVars, obsVars>>

\* A per-page body resumes from `await page.render(...).promise` (lines 238-246).
PrintPageAfterRender(n, ok) ==
  /\ n \in DOMAIN printPages /\ printPages[n] = "render"
  /\ printPages' = [printPages EXCEPT ![n] = IF ok THEN "done" ELSE "failed"]
  /\ UNCHANGED <<docTitle, printPc, printArgs, title, titleBefore, container>>
  /\ UNCHANGED <<docVars, isVisible, pageVars, formVars, geomVars, sessionVars, obsVars>>

\* print resumes from `await Promise.all` (lines 217-263).  A rejected page body
\* rejects it at once; when all resolved the title is overridden (lines
\* 249-252) and the dialog opens (line 255), which may throw.  Either way the
\* finally block runs in the same step.
PrintAfterPages(dialogOk) ==
  /\ printPc = "pages"
  /\ IF \E n \in DOMAIN printPages : printPages[n] = "failed"
     THEN /\ PrintFinally(title, docTitle)
          /\ title' = title
          /\ printPc' = "rejected"
     ELSE /\ \A n \in DOMAIN printPages : printPages[n] = "done"
          /\ title' = IF printArgs.filename # "" THEN docTitle ELSE title
          /\ PrintFinally(title', IF printArgs.filename # "" THEN printArgs.filename
                                  ELSE docTitle)
          /\ printPc' = IF dialogOk THEN "returned" ELSE "rejected"
  /\ UNCHANGED <<printArgs, titleBefore, printPages>>
  /\ UNCHANGED <<docVars, isVisible, pageVars, formVars, geomVars, sessionVars, obsVars>>

InitPrint ==
  /\ InitDoc(NumPages) /\ NoPage /\ IdleForm /\ IdleGeom /\ IdleSession /\ IdleObserver
  /\ docTitle \in Titles
  /\ printPc = "idle"
  /\ printArgs = [filename |-> "", allPages |-> FALSE, page |-> 0]
  /\ title = NULL
  /\ titleBefore = ""
  /\ printPages = <<>>
  /\ container = [attached |-> FALSE, canvases |-> {}, released |-> FALSE]

NextPrint ==
  \/ \E f \in Filenames, a \in BOOLEAN, pg \in 0..NumPages : PrintCall(f, a, pg)
  \/ \E ok \in BOOLEAN : PrintAfterCreateIframe(ok)
  \/ \E n \in 1..NumPages, ok \in BOOLEAN : PrintPageAfterGetPage(n, ok)
  \/ \E n \in 1..NumPages, ok \in BOOLEAN : PrintPageAfterRender(n, ok)
  \/ \E ok \in BOOLEAN : PrintAfterPages(ok)

SpecPrint == InitPrint /\ [][NextPrint]_vars

\* --------------------------------------------------------------- SpecForm
Subtypes == {"Widget", "Link"}
FieldTypes == {"Tx", "Btn", "Ch", "Sig", "Xx"}
Annotations ==
  [subtype : Subtypes, fieldType : FieldTypes,
   checkBox : BOOLEAN, radioButton : BOOLEAN, combo : BOOLEAN]

\* FieldCategory with the two Btn tests in the opposite order.
FieldCategoryRadioFirst(a) ==
  IF a.subtype # "Widget" THEN NULL
  ELSE CASE a.fieldType = "Tx" -> "Text Field"
         [] a.fieldType = "Btn" -> IF a.radioButton THEN "Radio Button"
                                   ELSE IF a.checkBox THEN "Checkbox"
                                   ELSE "Push Button"
         [] a.fieldType = "Ch" -> IF a.combo THEN "Combo Box" ELSE "List Box"
         [] a.fieldType = "Sig" -> "Signature Field"
         [] OTHER -> "Unknown Field Type"

\* fieldCategory of one annotation (lines 93-122): null unless a Widget.
FieldCategory(a) ==
  IF a.subtype # "Widget" THEN NULL
  ELSE CASE a.fieldType = "Tx" -> "Text Field"
         [] a.fieldType = "Btn" -> IF a.checkBox THEN "Checkbox"
                                   ELSE IF a.radioButton THEN "Radio Button"
                                   ELSE "Push Button"
         [] a.fieldType = "Ch" -> IF a.combo THEN "Combo Box" ELSE "List Box"
         [] a.fieldType = "Sig" -> "Signature Field"
         [] OTHER -> "Unknown Field Type"

\* transformedAnnotations (lines 90-132), kept to the fieldCategory.
TransformedAnnotations(list) == [i \in 1..Len(list) |-> FieldCategory(list[i])]

\* The children appended by the forEach (lines 136-155): one per annotation
\* whose fieldCategory is truthy, carrying data-field-category.
RECURSIVE AppendFields(_, _)
AppendFields(divs, cats) ==
  IF cats = <<>> THEN divs
  ELSE AppendFields(IF Head(cats) # NULL /\ Head(cats) # "" THEN Append(divs, Head(cats))
                    ELSE divs,
                    Tail(cats))

\* renderFormFields (lines 71-160) on the children of formLayerDiv:
\* innerHTML = '' (line 134), then the appends.
renderFormFields ==
  /\ formPc = "ready"
  /\ formFieldDivs' = AppendFields(<<>>, TransformedAnnotations(annotations))
  /\ formPc' = "done"
  /\ UNCHANGED annotations
  /\ UNCHANGED <<docVars, isVisible, pageVars, printVars, geomVars, sessionVars, obsVars>>

\* Annotation lists of up to MaxAnnotations entries; the container still holds
\* a field of an earlier pass.
InitForm ==
  /\ InitDoc(NumPages) /\ NoPage /\ IdlePrint /\ IdleGeom /\ IdleSession /\ IdleObserver
  /\ \E k \in 0..MaxAnnotations : annotations \in [1..k -> Annotations]
  /\ formFieldDivs = <<"Text Field">>
  /\ formPc = "ready"

NextForm == renderFormFields

SpecForm == InitForm /\ [][NextForm]_vars

\* --------------------------------------------------------------- SpecGeom
\* A JavaScript number that is a non-negative rational, Infinity or NaN, as a
\* reduced fraction <<n, d>>: <<1, 0>> is Infinity and <<0, 0>> is NaN, so that
\* x / 0, 0 / 0, 0 * Infinity and x / Infinity come out as IEEE 754 gives them.
RECURSIVE GCD(_, _)
GCD(a, b) == IF b = 0 THEN a ELSE GCD(b, a % b)

Reduced(n, d) == IF n = 0 /\ d = 0 THEN <<0, 0>>
                 ELSE <<n \div GCD(n, d), d \div GCD(n, d)>>
Num(i) == <<i, 1>>
Mul(x, y) == Reduced(x[1] * y[1], x[2] * y[2])
Div(x, y) == Reduced(x[1] * y[2], x[2] * y[1])
IsFinite(x) == x[2] # 0

\* The % operator of JavaScript: the result takes the sign of the dividend.
JsRem(a, b) == IF a >= 0 THEN a % b ELSE -((-a) % b)

\* An optional numeric prop: <<>> when undefined, <<n>> otherwise.
TruthyNum(o) == o # <<>> /\ o[1] # 0

\* pageRotation (lines 173 and 360).
PageRotation(g) == JsRem(JsRem(g.rotation, 360) + g.rotate, 360)

\* isTransposed (lines 175 and 361), for rotations that are multiples of 90.
IsTransposed(g) == JsRem(PageRotation(g) \div 90, 2) # 0

ViewWidth(g) == g.view[3] - g.view[1]     \* lines 176 and 362
ViewHeight(g) == g.view[4] - g.view[2]    \* lines 177 and 363

\* The ratio handed to getPageDimensions (lines 180 and 364).
Ratio(g) == IF IsTransposed(g) THEN Div(Num(ViewWidth(g)), Num(ViewHeight(g)))
            ELSE Div(Num(ViewHeight(g)), Num(ViewWidth(g)))

\* getPageDimensions(ratio) (lines 50-63): <<width, height>>.
getPageDimensions(ratio, g) ==
  IF TruthyNum(g.height) /\ ~TruthyNum(g.width)
  THEN <<Div(Num(g.height[1]), ratio), Num(g.height[1])>>
  ELSE LET width == IF g.width # <<>> THEN Num(g.width[1]) ELSE Num(g.clientWidth)
       IN <<width, Mul(width, ratio)>>

\* pageScale (lines 189-190).
PageScale(g) ==
  Div(getPageDimensions(Ratio(g), g)[1],
      Num(IF IsTransposed(g) THEN ViewHeight(g) ELSE ViewWidth(g)))

\* setup() from the resolved page to the stored dimensions (lines 360-369).
\* None of these operations throws, so the catch of line 386 is not entered.
SetupGeometry ==
  /\ geomPc = "setup"
  /\ pageWidth' = getPageDimensions(Ratio(geom), geom)[1]
  /\ pageHeight' = getPageDimensions(Ratio(geom), geom)[2]
  /\ pageRotation' = PageRotation(geom)
  /\ geomPc' = "renderPage"
  /\ UNCHANGED <<geom, pageScale, geomSignals>>
  /\ UNCHANGED <<docVars, isVisible, pageVars, printVars, formVars, sessionVars, obsVars>>

\* renderPage() from the resolved page to page.getViewport (lines 173-196).
\* For a rotation that is a multiple of 90 nothing here throws, so the catch of
\* line 286 is not entered and nothing is emitted.
RenderPageGeometry ==
  /\ geomPc = "renderPage"
  /\ pageWidth' = getPageDimensions(Ratio(geom), geom)[1]
  /\ pageHeight' = getPageDimensions(Ratio(geom), geom)[2]
  /\ pageScale' = PageScale(geom)
  /\ pageRotation' = PageRotation(geom)
  /\ geomPc' = "done"
  /\ UNCHANGED <<geom, geomSignals>>
  /\ UNCHANGED <<docVars, isVisible, pageVars, printVars, formVars, sessionVars, obsVars>>

Views == {<<0, 0, 600, 800>>, <<0, 0, 800, 600>>, <<0, 0, 0, 800>>, <<0, 0, 600, 0>>,
          <<10, 20, 10, 20>>}
Rotates == {0, 90, 180, 270}
Rotations == {0, 90, -90, 450}
Widths == {<<>>, <<0>>, <<300>>}
Heights == {<<>>, <<0>>, <<225>>}
ClientWidths == {0, 300}

\* The inputs of SpecLayout: a content box with non-zero extents.
LayoutViews == {<<0, 0, 600, 800>>}
LayoutRotations == {0, 90}
LayoutWidths == {<<>>, <<300>>}
LayoutHeights == {<<>>, <<225>>}

InitGeom ==
  /\ InitDoc(NumPages) /\ NoPage /\ IdlePrint /\ IdleForm /\ IdleSession /\ IdleObserver
  /\ geom \in [view : Views, rotate : Rotates, rotation : Rotations,
               width : Widths, height : Heights, clientWidth : ClientWidths]
  /\ pageWidth = <<>>
  /\ pageHeight = <<>>
  /\ pageScale = <<>>
  /\ pageRotation = 0
  /\ geomPc = "setup"
  /\ geomSignals = {}

NextGeom == SetupGeometry \/ RenderPageGeometry

SpecGeom == InitGeom /\ [][NextGeom]_vars

\* ------------------------------------------------------------- SpecLayout
\* The stored dimensions of one mounted page while its props, the container
\* width and its membership in the Render Set change.  geomPc is "renderPage"
\* while a renderPage body is suspended in getPage and "done" otherwise; every
\* such body computes from the props it finds when it resumes.

\* The props of the watch source (line 401) that the dimensions depend on.
WatchedProps(g) == <<g.rotation, g.width, g.height>>

\* watch([scale, rotation, width, height]) (lines 400-409) for new values of
\* rotation, width and height: cleanup() and renderPage() when the page should
\* render, nothing otherwise.
PropChangeGeometry(r, w, h) ==
  /\ root # NULL
  /\ WatchedProps(geom) # <<r, w, h>>
  /\ geom' = [geom EXCEPT !.rotation = r, !.width = w, !.height = h]
  /\ geomPc' = IF shouldRender(pagesToRender) THEN "renderPage" ELSE geomPc
  /\ UNCHANGED <<pageWidth, pageHeight, pageScale, pageRotation, geomSignals>>
  /\ UNCHANGED <<docVars, isVisible, pageVars, printVars, formVars, sessionVars, obsVars>>

\* The container (props.parentRoot) gets another clientWidth: the component
\* has no watcher and no observer for it.
ParentResize(cw) ==
  /\ cw # geom.clientWidth
  /\ geom' = [geom EXCEPT !.clientWidth = cw]
  /\ UNCHANGED <<pageWidth, pageHeight, pageScale, pageRotation, geomPc, geomSignals>>
  /\ UNCHANGED <<docVars, isVisible, pageVars, printVars, formVars, sessionVars, obsVars>>

\* The page's own observer reports v, the parent recomputes pagesToRender and
\* watch(shouldRender) (lines 412-422) calls renderPage() or cleanup();
\* cleanup() leaves pageWidth and pageHeight alone.
ShouldRenderChange(v) ==
  /\ v # isVisible[pageNum]
  /\ isVisible' = [isVisible EXCEPT ![pageNum] = v]
  /\ onVisibilityChanged(pageNum, v)
  /\ geomPc' = IF shouldRender(pagesToRender') /\ ~shouldRender(pagesToRender)
               THEN "renderPage" ELSE geomPc
  /\ UNCHANGED <<geom, pageWidth, pageHeight, pageScale, pageRotation, geomSignals>>
  /\ UNCHANGED <<pageVars, printVars, formVars, sessionVars, obsVars>>

\* A mounted page outside the Render Set whose setup() has stored its
\* dimensions (lines 366-369) and registered its observer.
InitLayout ==
  /\ InitDoc(NumPages) /\ IdlePrint /\ IdleForm /\ IdleSession /\ IdleObserver
  /\ pageNum = 1
  /\ props = [textLayer |-> FALSE, annotationLayer |-> FALSE, formLayer |-> FALSE]
  /\ root = "el"
  /\ observer = "observing"
  /\ setupPc = "done"
  /\ page = "handle"
  /\ renderingTask = 0
  /\ passes = <<>>
  /\ canvas = ReleasedCanvas
  /\ textLayerDiv = {}
  /\ annotationLayerDiv = {}
  /\ formLayerDiv = {}
  /\ geom \in [view : LayoutViews, rotate : {0}, rotation : LayoutRotations,
               width : LayoutWidths, height : LayoutHeights, clientWidth : ClientWidths]
  /\ pageWidth = getPageDimensions(Ratio(geom), geom)[1]
  /\ pageHeight = getPageDimensions(Ratio(geom), geom)[2]
  /\ pageScale = <<>>
  /\ pageRotation = PageRotation(geom)
  /\ geomPc = "done"
  /\ geomSignals = {}

NextLayout ==
  \/ \E r \in LayoutRotations, w \in LayoutWidths, h \in LayoutHeights :
       PropChangeGeometry(r, w, h)
  \/ \E cw \in ClientWidths : ParentResize(cw)
  \/ \E v \in BOOLEAN : ShouldRenderChange(v)
  \/ RenderPageGeometry

SpecLayout == InitLayout /\ [][NextLayout]_vars

\* ----------------------------------------------------------- SpecObserver
\* The entries one invocation of an observer callback can be handed: the
\* records queued for its target since the last invocation, oldest first.
EntryLists == UNION {[1..k -> BOOLEAN] : k \in 1..MaxEntries}

\* The entry the callback reads: `const entry = entries[0]` (line 374).
CallbackEntry(entries) == entries[1]

\* The IntersectionObserver callback of page n (lines 373-380) handed
\* `entries`, and the parent's onVisibilityChanged (lines 276-300) for the
\* event it emits.
ObserverEntries(n, entries) ==
  /\ Len(delivered) + Len(entries) <= MaxDelivered
  /\ delivered' = delivered \o [i \in 1..Len(entries) |-> <<n, entries[i]>>]
  /\ isVisible' = [isVisible EXCEPT ![n] = CallbackEntry(entries)]
  /\ IF isVisible'[n] # isVisible[n]
     THEN /\ visibilityEvents' = Append(visibilityEvents, <<n, isVisible'[n]>>)
          /\ onVisibilityChanged(n, isVisible'[n])
     ELSE UNCHANGED <<visibilityEvents, docVars>>
  /\ UNCHANGED <<pageVars, printVars, formVars, geomVars, sessionVars>>

\* The observers of all pages, registered, nothing delivered yet.
InitObserver ==
  /\ InitDoc(NumPages) /\ NoPage
  /\ IdlePrint /\ IdleForm /\ IdleGeom /\ IdleSession /\ IdleObserver

NextObserver == \E n \in 1..numPages, entries \in EntryLists : ObserverEntries(n, entries)

SpecObserver == InitObserver /\ [][NextObserver]_vars

\* ---------------------------------------------------------------- SpecDoc
\* An event of the document session; doc is the handle 'loaded' carries.
Event(name, handle) == [event |-> name, doc |-> handle]

\* DerivePageNums starting at 0.
DerivePageNumsFromZero(propPage, count) ==
  IF propPage # 0 THEN <<propPage>> ELSE [i \in 1..count |-> i - 1]

\* pageNums.value for a document of `count` pages (lines 122-129).
DerivePageNums(propPage, count) ==
  IF propPage # 0 THEN <<propPage>> ELSE [i \in 1..count |-> i]

\* WatchPageNums without the length test.
WatchPageNumsAlways(oldId, newId, nums, events) ==
  IF oldId # newId THEN Append(events, Event("rendered", 0)) ELSE events

\* The callback of watch(pageNums) (lines 303-311), which runs when the ref was
\* assigned another array object: the events after it.
WatchPageNums(oldId, newId, nums, events) ==
  IF oldId # newId /\ Len(nums) > 0 THEN Append(events, Event("rendered", 0)) ELSE events

\* The callback of watch(doc) (lines 118-136) for a change of doc.value to
\* newDoc, a document of `count` pages, and the watch(pageNums) callback the
\* assignment to pageNums.value schedules.
WatchDoc(newDoc, count, events) ==
  /\ pageNums' = IF newDoc # 0 THEN DerivePageNums(propsPage, count) ELSE <<>>
  /\ pageNumsId' = pageNumsId + 1
  /\ emitted' = WatchPageNums(pageNumsId, pageNumsId', pageNums',
                              IF newDoc # 0 THEN Append(events, Event("loaded", newDoc))
                              ELSE events)

\* The source prop changes and the engine starts loading it.
SourceChange ==
  /\ loadPc = "idle"
  /\ loads < MaxLoads
  /\ loads' = loads + 1
  /\ loadPc' = "loading"
  /\ UNCHANGED <<doc, propsPage, pageNums, pageNumsId, emitted, numPages>>
  /\ UNCHANGED <<visiblePages, pagesToRender, isVisible, pageVars, printVars, formVars,
                 geomVars, obsVars>>

\* The load resolves with a document of `count` pages: the handle replaces
\* doc.value.
LoadResolve(count) ==
  /\ loadPc = "loading"
  /\ loadPc' = "idle"
  /\ doc' = loads
  /\ numPages' = count
  /\ WatchDoc(doc', count, emitted)
  /\ UNCHANGED <<loads, propsPage>>
  /\ UNCHANGED <<visiblePages, pagesToRender, isVisible, pageVars, printVars, formVars,
                 geomVars, obsVars>>

\* The load fails: onError emits 'loading-failed' (lines 102-104) and no
\* document is left loaded.
LoadReject ==
  /\ loadPc = "loading"
  /\ loadPc' = "idle"
  /\ doc' = 0
  /\ numPages' = 0
  /\ IF doc # 0
     THEN WatchDoc(0, 0, Append(emitted, Event("loading-failed", 0)))
     ELSE /\ emitted' = Append(emitted, Event("loading-failed", 0))
          /\ UNCHANGED <<pageNums, pageNumsId>>
  /\ UNCHANGED <<loads, propsPage>>
  /\ UNCHANGED <<visiblePages, pagesToRender, isVisible, pageVars, printVars, formVars,
                 geomVars, obsVars>>

\* The page prop changes; nothing watches it.
PropsPageChange(p) ==
  /\ p # propsPage
  /\ propsPage' = p
  /\ UNCHANGED <<doc, loadPc, loads, pageNums, pageNumsId, emitted>>
  /\ UNCHANGED <<docVars, isVisible, pageVars, printVars, formVars, geomVars, obsVars>>

PageEvents == {"page-rendered", "rendering-failed"}

\* onPageRendered and onRenderingFailed (lines 138-144): a page controller
\* signalled 'rendered' or 'rendering-failed' and the session passes it on.
PageEvent(name) ==
  /\ pageNums # <<>>
  /\ Cardinality({i \in 1..Len(emitted) : emitted[i].event \in PageEvents}) < MaxPageEvents
  /\ emitted' = Append(emitted, Event(name, 0))
  /\ UNCHANGED <<doc, loadPc, loads, propsPage, pageNums, pageNumsId>>
  /\ UNCHANGED <<docVars, isVisible, pageVars, printVars, formVars, geomVars, obsVars>>

\* After the component's setup: the source is loading, watch(doc) and
\* watch(pageNums) have run once (immediate) on a null doc.
InitSession ==
  /\ numPages = 0
  /\ visiblePages = {}
  /\ pagesToRender = {}
  /\ isVisible = <<>>
  /\ NoPage /\ IdlePrint /\ IdleForm /\ IdleGeom /\ IdleObserver
  /\ doc = 0
  /\ loadPc = "loading"
  /\ loads = 1
  /\ propsPage \in 0..NumPages
  /\ pageNums = <<>>
  /\ pageNumsId = 0
  /\ emitted = <<>>

NextSession ==
  \/ SourceChange
  \/ \E count \in 1..NumPages : LoadResolve(count)
  \/ LoadReject
  \/ \E p \in 0..NumPages : PropsPageChange(p)
  \/ \E name \in PageEvents : PageEvent(name)

SpecDoc == InitSession /\ [][NextSession]_vars

\* ================================================================= claims
Failures == {"rendering-failed:Error", "rendering-failed:TypeError"}
Mounted == root # NULL
LiveTasks == {b \in PassIds : passes[b].raster = "running"}

\* C1: a mounted page that is not in the Render Set has no live raster Render
\* Task and empty text, annotation and form overlays (the watch(shouldRender)
\* callback is part of the step that changes the Render Set).
C1_PlaceholderOutsideRenderSet ==
  (Mounted /\ pageNum \notin pagesToRender) =>
    /\ LiveTasks = {}
    /\ textLayerDiv = {}
    /\ annotationLayerDiv = {}
    /\ formLayerDiv = {}

\* C2: at most one raster Render Task is live, and every started task other
\* than the one held in renderingTask has been sent cancel, so a newly started
\* render finds cancel issued to every earlier task.
C2_OneLiveRenderTask ==
  /\ Cardinality(LiveTasks) <= 1
  /\ \A b \in PassIds :
       (passes[b].raster # "none" /\ renderingTask # b) => passes[b].cancelSent

\* C2 witness: two overlapping invocations whose page fetches resolved in the
\* opposite order: the later invocation's task was cancelled by the start of the
\* earlier invocation's task, which is now the live one.
C2_Witness ==
  \E b \in PassIds, c \in PassIds :
    /\ b < c
    /\ passes[c].raster = "cancelled"
    /\ passes[b].raster = "running"
    /\ renderingTask = b

\* C3: a render pass superseded by a cleanup-then-render pair while its raster
\* task was unresolved never signals 'rendering-failed' (stated for a mounted
\* page with the form layer present and for passes none of whose engine calls
\* failed, so that the signal can only come from the pass being superseded).
C3_SupersededNeverFails ==
  \A b \in PassIds :
    (Mounted /\ props.formLayer /\ passes[b].superseded
       /\ "rendering-failed:Error" \notin passes[b].signals)
      => passes[b].signals \cap Failures = {}

\* C4: a pass signals 'rendered' only if its raster render and its overlay
\* renders completed successfully, and never together with 'rendering-failed'.
C4_RenderedOnlyOnSuccess ==
  \A b \in PassIds :
    "rendered" \in passes[b].signals =>
      /\ passes[b].raster = "done"
      /\ passes[b].text \in {"none", "done"}
      /\ passes[b].annot \in {"none", "done"}
      /\ passes[b].signals \cap Failures = {}

\* C5: with the annotation layer on and the form layer off, a pass of a mounted
\* page whose engine calls and sub-renders all succeeded derived no form
\* overlay and signalled 'rendered' (and nothing else).
C5_AnnotationWithoutFormRenders ==
  \A b \in PassIds :
    (/\ Mounted /\ props.annotationLayer /\ ~props.formLayer
     /\ passes[b].pc = "done"
     /\ passes[b].raster = "done"
     /\ passes[b].text \in {"none", "done"}
     /\ passes[b].annot = "done")
      => (~passes[b].form /\ passes[b].signals = {"rendered"})

\* C6: the step that tears the controller down (onBeforeUnmount) leaves no live
\* raster Render Task, a released canvas and empty text, annotation and form
\* overlays.
C6_TeardownLeavesNothing ==
  [][(Mounted /\ ~Mounted') =>
       (/\ LiveTasks = {}
        /\ canvas = ReleasedCanvas
        /\ textLayerDiv = {}
        /\ annotationLayerDiv = {}
        /\ formLayerDiv = {})']_vars

\* C7: the Render Set is exactly the set of page numbers within
\* [1, pageCount] that are a visible page, its predecessor or its successor.
C7_RenderSetIsNeighbourhood ==
  pagesToRender =
    {n \in 1..numPages : \E v \in visiblePages : n = v - 1 \/ n = v \/ n = v + 1}

\* C7 witness: only the last page of a document of several pages is visible,
\* and the Render Set is that page and its predecessor.
C7_Witness ==
  /\ numPages >= 2
  /\ visiblePages = {numPages}
  /\ pagesToRender = {numPages - 1, numPages}

\* C8: when print has returned or rejected, the document title is the title
\* it had when print was called.
C8_TitleRestored ==
  printPc \in {"returned", "rejected"} => docTitle = titleBefore

\* The classification table of the form overlay, by rows.
C9_Table(a) ==
  CASE a.fieldType = "Tx" -> "Text Field"
    [] a.fieldType = "Btn" /\ a.checkBox -> "Checkbox"
    [] a.fieldType = "Btn" /\ ~a.checkBox /\ a.radioButton -> "Radio Button"
    [] a.fieldType = "Btn" /\ ~a.checkBox /\ ~a.radioButton -> "Push Button"
    [] a.fieldType = "Ch" /\ a.combo -> "Combo Box"
    [] a.fieldType = "Ch" /\ ~a.combo -> "List Box"
    [] a.fieldType = "Sig" -> "Signature Field"
    [] a.fieldType \notin {"Tx", "Btn", "Ch", "Sig"} -> "Unknown Field Type"

C9_Widgets == SelectSeq(annotations, LAMBDA a : a.subtype = "Widget")

\* C9: after renderFormFields the form overlay holds exactly one element per
\* Widget annotation, in list order, each with the category of the table;
\* non-Widget annotations are not placed.
C9_FormFieldClassification ==
  formPc = "done" =>
    /\ Len(formFieldDivs) = Len(C9_Widgets)
    /\ \A i \in 1..Len(C9_Widgets) : formFieldDivs[i] = C9_Table(C9_Widgets[i])

\* C9 witness: a Link and a Btn Widget with both checkBox and radioButton set
\* were rendered: one element, a Checkbox.
C9_Witness ==
  /\ formPc = "done"
  /\ Len(annotations) = 2
  /\ annotations[1].subtype = "Link"
  /\ annotations[2].subtype = "Widget" /\ annotations[2].fieldType = "Btn"
  /\ annotations[2].checkBox /\ annotations[2].radioButton
  /\ formFieldDivs = <<"Checkbox">>

C10_ZeroDivisor(g) ==
  \/ ViewWidth(g) = 0
  \/ ViewHeight(g) = 0

\* C10: a page whose content box has a zero extent makes setup and renderPage
\* fail with an error signalled as 'rendering-failed', and no stored width or
\* height and no scale handed to the engine is Infinity or NaN.
C10_DegenerateGeometryFails ==
  /\ \A x \in {pageWidth, pageHeight, pageScale} : x # <<>> => IsFinite(x)
  /\ (geomPc = "done" /\ C10_ZeroDivisor(geom)) => "rendering-failed" \in geomSignals

\* The same inputs with the requested rotation one full turn further.
C11_OneTurnMore(g) == [g EXCEPT !.rotation = @ + 360]

\* C11: for a requested rotation that is a multiple of 90 of either sign, the
\* effective rotation setup and renderPage computed is one of 0, 90, 180, 270,
\* and it, the transposed flag and the dimensions are those of the requested
\* rotation plus 360.
C11_EffectiveRotationNormalised ==
  geomPc # "setup" =>
    /\ pageRotation \in {0, 90, 180, 270}
    /\ pageRotation = PageRotation(C11_OneTurnMore(geom))
    /\ IsTransposed(geom) = IsTransposed(C11_OneTurnMore(geom))
    /\ <<pageWidth, pageHeight>> =
         getPageDimensions(Ratio(C11_OneTurnMore(geom)), C11_OneTurnMore(geom))

\* The same page sized by the height h alone.
C12_HeightAlone(g, h) == [g EXCEPT !.height = <<h>>, !.width = <<>>]

\* C12: with a requested width w > 0 and no height the stored height is
\* w * ratio, and sizing the same page by that height alone gives width w again
\* (taken where the height is a whole number, as a prop value of the inputs);
\* with both requested the width decides, with neither the container width.
C12_WidthAndHeightInverse ==
  geomPc = "done" =>
    /\ (geom.width # <<>> /\ geom.width[1] > 0 /\ geom.height = <<>>) =>
         /\ pageHeight = Mul(Num(geom.width[1]), Ratio(geom))
         /\ pageHeight[2] = 1 =>
              getPageDimensions(Ratio(geom), C12_HeightAlone(geom, pageHeight[1]))[1]
                = Num(geom.width[1])
    /\ (geom.width # <<>> /\ geom.height # <<>>) =>
         /\ pageWidth = Num(geom.width[1])
         /\ pageHeight = Mul(Num(geom.width[1]), Ratio(geom))
    /\ (geom.width = <<>> /\ geom.height = <<>>) =>
         /\ pageWidth = Num(geom.clientWidth)
         /\ pageHeight = Mul(Num(geom.clientWidth), Ratio(geom))

C13_Loaded(h) == {i \in 1..Len(emitted) : emitted[i] = Event("loaded", h)}
C13_Failed == {i \in 1..Len(emitted) : emitted[i].event = "loading-failed"}
C13_Finished == IF loadPc = "loading" THEN loads - 1 ELSE loads

\* C13: every step that changes the document handle leaves pageNums equal to
\* <<page>> when props.page is set and to 1..numPages otherwise, for a loaded
\* document, and empty for none; pageNums is empty while no document is loaded;
\* every finished load emitted either 'loaded' with its handle, once, or
\* 'loading-failed', and the handle held has its 'loaded'.
C13_PageNumsFollowDoc ==
  /\ [](doc = 0 => pageNums = <<>>)
  /\ [](/\ \A h \in 1..loads : Cardinality(C13_Loaded(h)) <= 1
        /\ doc # 0 => Cardinality(C13_Loaded(doc)) = 1
        /\ Cardinality(UNION {C13_Loaded(h) : h \in 1..loads}) + Cardinality(C13_Failed)
             = C13_Finished)
  /\ [][doc' # doc =>
          pageNums' = IF doc' = 0 THEN <<>>
                      ELSE IF propsPage # 0 THEN <<propsPage>>
                      ELSE [i \in 1..numPages' |-> i]]_vars

\* C13 witness: a first load succeeded, a later one failed, and the last one
\* loaded a document of two pages with no single page selected.
C13_Witness ==
  /\ doc = 3
  /\ propsPage = 0
  /\ pageNums = <<1, 2>>
  /\ C13_Loaded(1) # {}
  /\ C13_Failed # {}

C14_Rendered == Cardinality({i \in 1..Len(emitted) : emitted[i].event = "rendered"})

\* C14: a step emits 'rendered', once, exactly when it assigns pageNums a newly
\* derived sequence that is not empty; so no step that passes on a page's
\* 'rendered' or 'rendering-failed' emits it, none that leaves pageNums empty
\* does, and it needs no page event to have happened.
C14_RenderedOnSequenceChange ==
  [][C14_Rendered' = C14_Rendered +
       (IF pageNumsId' # pageNumsId /\ pageNums' # <<>> THEN 1 ELSE 0)]_vars

\* C14 witness: 'rendered' was emitted for two documents, no page has signalled
\* anything, and after a failed load the sequence is empty again.
C14_Witness ==
  /\ C14_Rendered = 2
  /\ \A i \in 1..Len(emitted) : emitted[i].event \notin PageEvents
  /\ emitted[Len(emitted)].event = "loading-failed"
  /\ pageNums = <<>>

\* No body of the controller is suspended and no engine render is unresolved.
Settled ==
  /\ setupPc = "done"
  /\ \A b \in PassIds : /\ passes[b].pc = "done"
                         /\ passes[b].raster # "running"
                         /\ passes[b].text # "running"
                         /\ passes[b].annot # "running"

\* No engine call and no render of any pass failed.
NoEngineFailure ==
  \A b \in PassIds : /\ "rendering-failed:Error" \notin passes[b].signals
                     /\ passes[b].raster # "failed"
                     /\ passes[b].text # "failed"
                     /\ passes[b].annot # "failed"

\* C15: once every body of a mounted page has settled, the canvas and the
\* text, annotation and form overlays hold nothing but the output of the render
\* pass triggered last (stated for runs in which the engine never failed).
C15_LatestPassWins ==
  (Mounted /\ Settled /\ NoEngineFailure /\ passes # <<>>) =>
    /\ canvas.pixels \subseteq {Len(passes)}
    /\ textLayerDiv \subseteq {Len(passes)}
    /\ annotationLayerDiv \subseteq {Len(passes)}
    /\ formLayerDiv \subseteq {Len(passes)}

\* C16: while the page is outside the Render Set or the controller is torn
\* down, and no body of the controller is suspended, the controller holds no
\* Page Handle.
C16_HandleOnlyWhileRenderable ==
  (Settled /\ (~Mounted \/ pageNum \notin pagesToRender)) => page = NULL

\* C17: while no renderPage body of a mounted page is in flight, the stored
\* pageWidth and pageHeight are what getPageDimensions gives for the current
\* rotation, width, height and container width, inside the Render Set and
\* outside it.
C17_StoredDimensionsCurrent ==
  (Mounted /\ geomPc = "done") =>
    <<pageWidth, pageHeight>> = getPageDimensions(Ratio(geom), geom)

\* The intersection state of page n after the first k delivered entries
\* (not intersecting before any).
RECURSIVE C18_StateAfter(_, _)
C18_StateAfter(n, k) ==
  IF k = 0 THEN FALSE
  ELSE IF delivered[k][1] = n THEN delivered[k][2]
  ELSE C18_StateAfter(n, k - 1)

\* The delivered entries that are transitions: those whose state differs from
\* the page's state before them.
C18_Transitions ==
  SelectSeq([k \in 1..Len(delivered) |->
               <<delivered[k][1], delivered[k][2],
                 delivered[k][2] # C18_StateAfter(delivered[k][1], k - 1)>>],
            LAMBDA e : e[3])

\* C18: the 'visibility-changed' events are the delivered intersection
\* transitions, one event each and in delivery order, also for entries handed
\* over together, and isVisible of every page is its last delivered state.
C18_EveryTransitionReported ==
  /\ visibilityEvents = [i \in 1..Len(C18_Transitions) |->
                           <<C18_Transitions[i][1], C18_Transitions[i][2]>>]
  /\ \A n \in 1..numPages : isVisible[n] = C18_StateAfter(n, Len(delivered))

\* C19: no step taken after the controller was unmounted registers its
\* observer, changes its isVisible (the only source of 'visibility-changed'),
\* starts a raster Render Task or changes the content of the text, annotation
\* or form overlay.
C19_TornDownIsTerminal ==
  [][~Mounted =>
       /\ observer' # "observing"
       /\ isVisible'[pageNum] = isVisible[pageNum]
       /\ LiveTasks' \subseteq LiveTasks
       /\ textLayerDiv' = textLayerDiv
       /\ annotationLayerDiv' = annotationLayerDiv
       /\ formLayerDiv' = formLayerDiv]_vars

Signalled(b) == Len(passes) >= b /\ passes[b].signals # {}

C21_MembershipUnchangedIsNoOp ==
  [][(isVisible' # isVisible /\ shouldRender(pagesToRender') = shouldRender(pagesToRender))
       => UNCHANGED pageVars]_vars

\* C21 witness, inside: pages 1 and 2 are both visible, so the later of the
\* two events found page 1 in the Render Set and left it there, and the one
\* pass of page 1 still has its raster task running.
C21_Witness ==
  /\ Mounted /\ visiblePages = {1, 2} /\ pageNum \in pagesToRender
  /\ Len(passes) = 1 /\ passes[1].raster = "running" /\ renderingTask = 1

\* C22: once print has returned or rejected, no per-page print render it
\* started is still in flight.
C22_NoRenderInFlightAfterPrint ==
  printPc \in {"returned", "rejected"} =>
    \A n \in DOMAIN printPages : printPages[n] # "render"

====
